---- MODULE Spec2Model ----
(***************************************************************************)
(* GitHub OAuth device-flow client of src/agents/agent.py:                 *)
(*   GitHubDeviceFlow (start_device_flow, poll_for_token, get_user_info),  *)
(*   the session slot device_flow_storage with start_github_authorization  *)
(*   and complete_github_authorization, and save_token_to_env.             *)
(*                                                                         *)
(* Text is modelled as a sequence of symbols.  The symbol "K" stands for   *)
(* the text GITHUB_PERSONAL_ACCESS_TOKEN= , "NL" for the newline, a token  *)
(* for the text of that token and "x" for any other word.                  *)
(*                                                                         *)
(* The process around the program is part of the state: the encoding of    *)
(* sys.stdout (every function prints pictographs, and so does the module   *)
(* when it is imported, line 660: the functions exist only in a process    *)
(* whose stdout can encode them), the environment token load_dotenv()      *)
(* leaves at import, and a Ctrl-C while the program waits in a request, in *)
(* webbrowser.open, in time.sleep or while the .env file is rewritten.     *)
(***************************************************************************)
EXTENDS Integers, Sequences, FiniteSets, TLC

VARIABLES
    device_flow_storage, \* the session slot (module global, line 118)
    access_token,        \* access_token field of the GitHubDeviceFlow objects:
                         \* NewClient is the object the slot holds, DirectClient
                         \* the object of the running direct poll_for_token
    environ,             \* os.environ['GITHUB_PERSONAL_ACCESS_TOKEN']
    fs,                  \* content of the three candidate .env paths
    pc,                  \* position of the single thread of control
    call,                \* the entry point that was called last
    frame,               \* locals of the running poll_for_token call
    requests,            \* token requests sent by the running/last poll
    non200,              \* how many of them received a non-200 response, kept
                         \* for the polls called directly
    sleeps,              \* time.sleep calls made by the running/last poll
    last_sleep,          \* seconds of the last time.sleep of that poll
    last_resp,           \* the response the last token request received, kept
                         \* for the polls called directly
    poll_out,            \* how the last poll_for_token call ended
    flow_ret,            \* how the start_device_flow call of the last start ended
    result,              \* what the last entry point returned
    raised,              \* whether the last entry point let an exception out
    last_ok,             \* slot written by the last start that returned instructions
    trace,               \* side effects of the last complete, in order
    save_tok,            \* token given to the last save_token_to_env
    save_pre,            \* file content read by the last save_token_to_env, this
    save_ret,            \* ... its return value, save_path the candidate path it
    save_path,           \* used and save_io what the file system did in it; these
    save_io,             \* four are kept for the saves called directly
    stdout,              \* encoding of sys.stdout, where every print goes
    user_info            \* local user_info of the running complete (line 229)

vars == <<device_flow_storage, access_token, environ, fs, pc, call,
          frame, requests, non200, sleeps, last_sleep, last_resp, poll_out,
          flow_ret, result, raised, last_ok, trace, save_pre, save_tok, save_ret,
          save_path, save_io, stdout, user_info>>

----------------------------------------------------------------------------
(* Bounds and value domains *)

MaxFileLen == 4
MaxCut == 1

None == "None"
Absent == <<"ABSENT">>
Tokens == {"t1", "t2"}

\* values a token response can hold in access_token besides a token: the
\* empty string, a string with a NUL character, a JSON number (JSON null is None)
EmptyToken == ""
NulToken == "t3\\0"
NumberToken == "#12345"
TokenValues == Tokens \cup {EmptyToken, NulToken, NumberToken, None}
DeviceCodes == {"d1", "d2"}
Intervals == {0, 300}

\* JSON values of the expires_in field: a number, a string, null
JNum(n) == [type |-> "number", n |-> n, s |-> ""]
JStr(s) == [type |-> "string", n |-> 0, s |-> s]
JNull == [type |-> "null", n |-> 0, s |-> ""]
ExpiresIns == {JNum(900), JStr("900")}
DefaultMaxMinutes == 10
UserCode == "ABCD-1234"
VerificationUri == "https://github.com/device"

KeyText == "K"
NewLine == "NL"
CarriageReturn == "CR"
\* the symbols of the configuration files the runs start from: the key, the
\* two line ends, other text, and a token saved earlier
Alphabet == {KeyText, NewLine, CarriageReturn, "x", "t1"}

\* symbols only a hand-written .env file holds: a blank, '#', a single quote
\* and the word export; every other symbol besides the key and the line ends
\* is a word without blanks, quotes, '#', '=', '$' or backslashes
Blank == "SP"
Hash == "HASH"
Quote == "QUOTE"
Export == "export"

\* encodings sys.stdout may have: one that can encode every character the
\* program prints, and one (ascii, cp1252) that cannot encode the pictographs
\* each message starts with
Encodings == {"utf-8", "ascii"}

\* print(...) of a message of the program succeeds
CanPrint(enc) == enc = "utf-8"

\* what print raises otherwise
EncodeError == <<"UnicodeEncodeError">>

\* Ctrl-C: KeyboardInterrupt, which is not an Exception
Interrupted == <<"KeyboardInterrupt">>

\* a value of the environment token that is neither a token nor empty
OtherText == "other"

\* the environment token the process may inherit from its parent
InheritedEnv == {None, "t2"}

\* Python truth value of a token: None and the empty text are false
Truthy(tok) == tok # None /\ tok # ""

\* the value is a str: it can be sliced (line 77)
IsString(v) == v # None /\ v # NumberToken

\* os.environ[...] = tok accepts it: a str without an embedded null byte (line 225)
EnvAccepts(tok) == IsString(tok) /\ tok # NulToken

----------------------------------------------------------------------------
(* Text functions used by save_token_to_env *)

\* f.read() of a file opened in text mode: '\r\n' and a lone '\r' come out
\* as '\n' (universal newlines, line 280)
RECURSIVE ReadText(_)
ReadText(raw) ==
    IF raw = <<>> THEN <<>>
    ELSE IF Head(raw) = CarriageReturn
    THEN <<NewLine>> \o ReadText(IF Len(raw) >= 2 /\ raw[2] = NewLine
                                  THEN Tail(Tail(raw)) ELSE Tail(raw))
    ELSE <<Head(raw)>> \o ReadText(Tail(raw))

\* what a write() that fails part way leaves in the file: the first `cut`
\* symbols of the content and, with `mid`, the start of the next one, which
\* is then neither the key nor a token (a newline cannot be cut)
CutText(content, cut, mid) ==
    LET k == IF cut < Len(content) THEN cut ELSE Len(content)
    IN  SubSeq(content, 1, k) \o
        (IF mid /\ k < Len(content) /\ content[k + 1] # NewLine
         THEN <<"x">> ELSE <<>>)

\* the variant that never finds the key in the content
ContainsKeyNever(content) == FALSE

\* 'GITHUB_PERSONAL_ACCESS_TOKEN=' in content
ContainsKey(content) == \E i \in 1..Len(content) : content[i] = KeyText

\* line.startswith('GITHUB_PERSONAL_ACCESS_TOKEN=')
StartsWithKey(line) == Len(line) >= 1 /\ line[1] = KeyText

\* position of the first newline of s, 0 when there is none
RECURSIVE FirstNewLine(_, _)
FirstNewLine(s, i) ==
    IF i > Len(s) THEN 0
    ELSE IF s[i] = NewLine THEN i
    ELSE FirstNewLine(s, i + 1)

\* content.split('\n')
RECURSIVE Split(_)
Split(s) ==
    LET n == FirstNewLine(s, 1) IN
    IF n = 0 THEN <<s>>
    ELSE <<SubSeq(s, 1, n - 1)>> \o Split(SubSeq(s, n + 1, Len(s)))

\* '\n'.join(lines)
RECURSIVE Join(_)
Join(lines) ==
    IF Len(lines) = 0 THEN <<>>
    ELSE IF Len(lines) = 1 THEN lines[1]
    ELSE lines[1] \o <<NewLine>> \o Join(Tail(lines))

\* f'GITHUB_PERSONAL_ACCESS_TOKEN={access_token}'
KeyLine(tok) == <<KeyText, tok>>

\* index of the first line that starts with the key, 0 when there is none
RECURSIVE FirstKeyLine(_, _)
FirstKeyLine(lines, i) ==
    IF i > Len(lines) THEN 0
    ELSE IF StartsWithKey(lines[i]) THEN i
    ELSE FirstKeyLine(lines, i + 1)

\* for i, line in enumerate(lines): if line.startswith(KEY): lines[i] = ...; break
ReplaceKeyLine(lines, tok) ==
    LET i == FirstKeyLine(lines, 1) IN
    IF i = 0 THEN lines ELSE [lines EXCEPT ![i] = KeyLine(tok)]

\* content += f'\nGITHUB_PERSONAL_ACCESS_TOKEN={access_token}\n'
AppendKey(content, tok) == content \o <<NewLine>> \o KeyLine(tok) \o <<NewLine>>

\* the update-or-add step of save_token_to_env on the text read from the file
UpdateContent(content, tok) ==
    IF ContainsKey(content)
    THEN Join(ReplaceKeyLine(Split(content), tok))
    ELSE AppendKey(content, tok)

Paths == 1..3

\* last candidate path that exists, 0 when none does
RECURSIVE LastExisting(_, _)
LastExisting(files, p) ==
    IF p > 3 THEN 0
    ELSE LET later == LastExisting(files, p + 1)
         IN  IF later # 0 THEN later
             ELSE IF files[p] # Absent THEN p ELSE 0

\* first candidate path that exists, 0 when none does
RECURSIVE FirstExisting(_, _)
FirstExisting(files, p) ==
    IF p > 3 THEN 0
    ELSE IF files[p] # Absent THEN p
    ELSE FirstExisting(files, p + 1)

\* a value written in a .env file, as a value of the environment token
TextValue(seq) ==
    IF seq = <<>> THEN EmptyToken
    ELSE IF Len(seq) = 1 /\ seq[1] \in Tokens THEN seq[1]
    ELSE OtherText

\* python-dotenv reads the file in text mode and parses it binding by
\* binding (dotenv/parser.py, parse_binding): blank space and empty lines
\* are skipped, then come an optional `export ` prefix, the key, '=' and the
\* value, an optional comment and the end of the line.  Escapes, ${...}
\* interpolation and double quotes are outside the symbols of the model.

\* first position at or after i that holds no blank
RECURSIVE SkipBlanks(_, _)
SkipBlanks(c, i) ==
    IF i <= Len(c) /\ c[i] = Blank THEN SkipBlanks(c, i + 1) ELSE i

\* first position at or after i that holds no blank and no newline
RECURSIVE SkipSpace(_, _)
SkipSpace(c, i) ==
    IF i <= Len(c) /\ c[i] \in {Blank, NewLine} THEN SkipSpace(c, i + 1) ELSE i

\* position of the first newline at or after i, Len(c) + 1 when there is none
RECURSIVE LineEnd(_, _)
LineEnd(c, i) ==
    IF i > Len(c) \/ c[i] = NewLine THEN i ELSE LineEnd(c, i + 1)

\* position of the first quote at or after i, 0 when there is none
RECURSIVE NextQuote(_, _)
NextQuote(c, i) ==
    IF i > Len(c) THEN 0
    ELSE IF c[i] = Quote THEN i
    ELSE NextQuote(c, i + 1)

\* first position at or after i that cannot be part of an unquoted key
RECURSIVE KeyEnd(_, _)
KeyEnd(c, i) ==
    IF i > Len(c) \/ c[i] \in {KeyText, NewLine, Blank, Hash} THEN i
    ELSE KeyEnd(c, i + 1)

\* an unquoted value, from i to the end e of its line: a comment (blanks,
\* then '#') and trailing blanks are dropped
RECURSIVE Unquoted(_, _, _)
Unquoted(c, i, e) ==
    IF i >= e THEN <<>>
    ELSE IF c[i] = Blank
    THEN LET j == SkipBlanks(c, i)
         IN  IF j >= e \/ c[j] = Hash THEN <<>>
             ELSE SubSeq(c, i, j - 1) \o Unquoted(c, j, e)
    ELSE <<c[i]>> \o Unquoted(c, i + 1, e)

\* what may follow a key or a value that ends before j: a comment, then the
\* end of the line; anything else makes the binding invalid, and the rest of
\* the line is skipped
EndBinding(c, j, val) ==
    LET b == SkipBlanks(c, j)
    IN  IF b <= Len(c) /\ c[b] = Hash
        THEN [ok |-> TRUE, val |-> val, next |-> LineEnd(c, b) + 1]
        ELSE IF b > Len(c) \/ c[b] = NewLine
        THEN [ok |-> TRUE, val |-> val, next |-> b + 1]
        ELSE [ok |-> FALSE, val |-> val, next |-> LineEnd(c, j) + 1]

\* the value that starts at v, after '=' and the blanks that follow it:
\* nothing, a quoted value (it may span lines; without a closing quote the
\* binding is invalid), or an unquoted one
ParseValue(c, v) ==
    IF v > Len(c) \/ c[v] = NewLine THEN EndBinding(c, v, <<>>)
    ELSE IF c[v] = Quote
    THEN LET q == NextQuote(c, v + 1)
         IN  IF q = 0 THEN [ok |-> FALSE, val |-> <<>>, next |-> LineEnd(c, v) + 1]
             ELSE EndBinding(c, q + 1, SubSeq(c, v + 1, q - 1))
    ELSE [ok |-> TRUE, val |-> Unquoted(c, v, LineEnd(c, v)),
          next |-> LineEnd(c, v) + 1]

\* the binding that starts at i: whether it binds the key of the token, the
\* value, and where the next binding starts
ParseBinding(c, i) ==
    LET k == IF c[i] = Export /\ i < Len(c) /\ c[i + 1] = Blank
             THEN SkipBlanks(c, i + 1) ELSE i
        skip == [ours |-> FALSE, val |-> <<>>, next |-> LineEnd(c, k) + 1]
    IN  IF k > Len(c) \/ c[k] \in {NewLine, Hash} THEN skip
        ELSE IF c[k] = KeyText
        THEN LET r == ParseValue(c, SkipBlanks(c, k + 1))
             IN  [ours |-> r.ok, val |-> r.val, next |-> r.next]
        ELSE IF c[k] = Quote
        THEN LET q == NextQuote(c, k + 1)
             IN  IF q = 0 \/ q = k + 1 THEN skip
                 ELSE [ours |-> FALSE, val |-> <<>>,
                       next |-> EndBinding(c, q + 1, <<>>).next]
        ELSE LET m == KeyEnd(c, k)
             IN  [ours |-> FALSE, val |-> <<>>,
                  next |-> IF m <= Len(c) /\ c[m] = KeyText
                           THEN ParseValue(c, SkipBlanks(c, m + 1)).next
                           ELSE EndBinding(c, m, <<>>).next]

\* the value of the key after the bindings from position i on, `cur` before
\* them: the last valid binding of the key decides
RECURSIVE ParseFrom(_, _, _)
ParseFrom(c, i, cur) ==
    LET j == SkipSpace(c, i)
    IN  IF j > Len(c) THEN cur
        ELSE LET b == ParseBinding(c, j)
             IN  ParseFrom(c, b.next, IF b.ours THEN TextValue(b.val) ELSE cur)

\* the value python-dotenv reads for the key from the text of a .env file,
\* None when no binding sets it
DotenvValue(content) == ParseFrom(content, 1, None)

\* where the working directory lies: above the module directory, below it,
\* or neither (the two are different directories: candidates 2 and 3 are
\* two files)
CwdRelations == {"above", "below", "apart"}

\* load_dotenv() at import (line 12).  find_dotenv looks for a .env from a
\* start directory upwards and takes the first it meets: it starts at the
\* module directory (candidate 3, and on the way up candidate 2 when the
\* working directory is above), or, with from_cwd, at the working directory
\* (candidate 2, and on the way up candidate 3 when the working directory is
\* below); from_cwd holds when the process is interactive (python -c, REPL),
\* traced (debugger, coverage) or frozen.  A variable the process already
\* has is kept.  The result is the environment token after import.
load_dotenv(files, env, cwd, from_cwd) ==
    LET found == IF from_cwd
                 THEN IF files[2] # Absent THEN 2
                      ELSE IF cwd = "below" /\ files[3] # Absent THEN 3
                      ELSE 0
                 ELSE IF files[3] # Absent THEN 3
                      ELSE IF cwd = "above" /\ files[2] # Absent THEN 2
                      ELSE 0
    IN  IF env # None \/ found = 0 THEN env
        ELSE DotenvValue(ReadText(files[found]))

\* what the file system does to the chosen path: "read_fail" is open(path, 'r')
\* or read() raising, "write_fail" is open(path, 'w') raising, "write_cut" is
\* write() or close() raising after open(path, 'w') emptied the file and `cut`
\* symbols (and, with `mid`, part of the next) reached it
IO(kind) == [kind |-> kind, cut |-> 0, mid |-> FALSE]
NoIO == IO("none")
IOFailures ==
    {IO("read_fail"), IO("write_fail")}
    \cup {[kind |-> "write_cut", cut |-> k, mid |-> m] : k \in 0..MaxCut, m \in BOOLEAN}

\* a Ctrl-C while save_token_to_env works on the chosen path: "interrupt"
\* while the file is read (lines 280-281), "interrupt_write" after
\* open(path, 'w') emptied the file and before f.write (lines 294-295),
\* "interrupt_return" after the file was written and closed and before
\* return True (lines 297-298)
IOInterrupts == {IO("interrupt"), IO("interrupt_write"), IO("interrupt_return")}

IOOutcomes == {IO("ok")} \cup IOInterrupts \cup IOFailures

\* the try block of save_token_to_env (lines 266-301); its first print
\* (line 275) comes before any file is looked at
SaveBody(files, tok, io, enc) ==
    LET p == FirstExisting(files, 1)
        content == ReadText(files[p])
        new == UpdateContent(content, tok)
    IN  IF ~CanPrint(enc)
        THEN [exc |-> TRUE, base |-> FALSE, ret |-> FALSE, files |-> files,
              path |-> 0, pre |-> Absent]
        ELSE IF p = 0
        THEN [exc |-> FALSE, base |-> FALSE, ret |-> FALSE, files |-> files,
              path |-> 0, pre |-> Absent]
        ELSE IF io.kind = "interrupt"
        THEN [exc |-> TRUE, base |-> TRUE, ret |-> FALSE, files |-> files,
              path |-> p, pre |-> Absent]
        ELSE IF io.kind = "interrupt_write"
        THEN [exc |-> TRUE, base |-> TRUE, ret |-> FALSE,
              files |-> [files EXCEPT ![p] = <<>>], path |-> p, pre |-> content]
        ELSE IF io.kind = "interrupt_return"
        THEN [exc |-> TRUE, base |-> TRUE, ret |-> FALSE,
              files |-> [files EXCEPT ![p] = new], path |-> p, pre |-> content]
        ELSE IF io.kind = "read_fail"
        THEN [exc |-> TRUE, base |-> FALSE, ret |-> FALSE, files |-> files,
              path |-> p, pre |-> Absent]
        ELSE IF io.kind = "write_fail"
        THEN [exc |-> TRUE, base |-> FALSE, ret |-> FALSE, files |-> files,
              path |-> p, pre |-> content]
        ELSE IF io.kind = "write_cut"
        THEN [exc |-> TRUE, base |-> FALSE, ret |-> FALSE,
              files |-> [files EXCEPT ![p] = CutText(new, io.cut, io.mid)],
              path |-> p, pre |-> content]
        ELSE [exc |-> FALSE, base |-> FALSE, ret |-> TRUE,
              files |-> [files EXCEPT ![p] = new], path |-> p, pre |-> content]

\* the except clause of save_token_to_env (lines 303-305): print, return
\* False; when the print of line 304 cannot be encoded the function raises,
\* and a KeyboardInterrupt (base) is no Exception and passes the clause
SaveExcept(o, enc) ==
    [ret |-> IF o.exc THEN FALSE ELSE o.ret, files |-> o.files, path |-> o.path,
     pre |-> o.pre, raised |-> o.exc /\ (o.base \/ ~CanPrint(enc)),
     base |-> o.exc /\ o.base]

\* save_token_to_env(access_token) on the files `files`
save_token_to_env(files, tok, io, enc) == SaveExcept(SaveBody(files, tok, io, enc), enc)

----------------------------------------------------------------------------
(* Provider responses *)

Msg(a) == <<a>>

DeviceFields == {"device_code", "user_code", "verification_uri", "interval", "expires_in"}

\* the JSON bodies a 200 device-code response may carry: the five fields
\* (either device code with the usual interval and expires_in, and the
\* device code d1 with every interval and every expires_in), the empty
\* object, or a body that lacks one field (the first missing field in the
\* order of lines 132-136 decides what happens); the values of a body that
\* lacks a field are never used, one value for each is enough
DeviceBodies ==
    {[has |-> DeviceFields, device_code |-> dc, interval |-> 300,
      expires_in |-> JNum(900)] : dc \in DeviceCodes}
    \cup
    {[has |-> DeviceFields, device_code |-> "d1", interval |-> iv, expires_in |-> ex] :
        iv \in Intervals, ex \in ExpiresIns}
    \cup
    {[has |-> F,
      device_code |-> IF "device_code" \in F THEN "d1" ELSE None,
      interval |-> IF "interval" \in F THEN 300 ELSE 0,
      expires_in |-> IF "expires_in" \in F THEN JNum(900) ELSE JNull] :
        F \in {{}} \cup {DeviceFields \ {f} : f \in DeviceFields}}

NoBody == [has |-> {}, device_code |-> None, interval |-> 0, expires_in |-> JNull]

\* what requests.post of line 27 does: it raises (a network failure, or the
\* KeyboardInterrupt of a Ctrl-C while it waits) or returns a response
DeviceResponses ==
    {[kind |-> "netfail", status |-> 0, json |-> FALSE, body |-> NoBody],
     [kind |-> "interrupt", status |-> 0, json |-> FALSE, body |-> NoBody],
     [kind |-> "http", status |-> 500, json |-> FALSE, body |-> NoBody],
     [kind |-> "http", status |-> 200, json |-> FALSE, body |-> NoBody]}
    \cup {[kind |-> "http", status |-> 200, json |-> TRUE, body |-> b] : b \in DeviceBodies}

PollFields == {"access_token", "error", "error_description"}
PollErrors == {"authorization_pending", "expired_token", "access_denied", "slow_down"}

PollBodies ==
    {[has |-> F,
      access_token |-> IF "access_token" \in F THEN t ELSE None,
      error |-> IF "error" \in F THEN e ELSE None,
      error_description |-> IF "error_description" \in F THEN "desc" ELSE None] :
        F \in SUBSET PollFields, t \in TokenValues, e \in PollErrors}

NoPollBody == [has |-> {}, access_token |-> None, error |-> None, error_description |-> None]

PollResponses ==
    {[kind |-> "netfail", status |-> 0, json |-> FALSE, body |-> NoPollBody],
     [kind |-> "http", status |-> 500, json |-> FALSE, body |-> NoPollBody],
     [kind |-> "http", status |-> 200, json |-> FALSE, body |-> NoPollBody]}
    \cup {[kind |-> "http", status |-> 200, json |-> TRUE, body |-> b] : b \in PollBodies}

NoResp == [kind |-> "none", status |-> 0, json |-> FALSE, body |-> NoPollBody]

\* response.status_code == 200 is false (line 69 not taken, lines 90-93)
Non200(resp) == resp.kind = "http" /\ resp.status # 200

UserFields == {"login", "email"}

\* the identity responses: the JSON body is an object with the fields `has`
\* (the empty object when there are none) or, with dict FALSE, a non-empty list
UserResponses ==
    {[kind |-> "netfail", status |-> 0, json |-> FALSE, has |-> {}, dict |-> TRUE],
     [kind |-> "interrupt", status |-> 0, json |-> FALSE, has |-> {}, dict |-> TRUE],
     [kind |-> "http", status |-> 500, json |-> FALSE, has |-> {}, dict |-> TRUE],
     [kind |-> "http", status |-> 200, json |-> FALSE, has |-> {}, dict |-> TRUE],
     [kind |-> "http", status |-> 200, json |-> TRUE, has |-> {}, dict |-> FALSE]}
    \cup {[kind |-> "http", status |-> 200, json |-> TRUE, has |-> F, dict |-> TRUE] :
             F \in SUBSET UserFields}

----------------------------------------------------------------------------
(* GitHubDeviceFlow *)

\* GitHubDeviceFlow.start_device_flow: the data of a 200 response, returned
\* as received; everything else raises "Error starting device flow: ...",
\* but a KeyboardInterrupt passes the handler of line 46 as it is
start_device_flow(resp) ==
    IF resp.kind = "interrupt"
    THEN [called |-> TRUE, exc |-> TRUE, val |-> NoBody, msg |-> Interrupted]
    ELSE IF resp.kind = "netfail"
    THEN [called |-> TRUE, exc |-> TRUE, val |-> NoBody,
          msg |-> <<"Error starting device flow", "ConnectionError">>]
    ELSE IF resp.status = 200
    THEN IF resp.json
         THEN [called |-> TRUE, exc |-> FALSE, val |-> resp.body, msg |-> <<>>]
         ELSE [called |-> TRUE, exc |-> TRUE, val |-> NoBody,
               msg |-> <<"Error starting device flow", "JSONDecodeError">>]
    ELSE [called |-> TRUE, exc |-> TRUE, val |-> NoBody,
          msg |-> <<"Error starting device flow", "Device flow start failed", "text">>]

\* what is kept of a start_device_flow outcome: whether it raised, whether
\* the data it returned lacks a required field, and the data when it is whole
FlowSummary(r) ==
    [called |-> r.called, exc |-> r.exc,
     partial |-> ~r.exc /\ r.val.has # DeviceFields,
     val |-> IF ~r.exc /\ r.val.has = DeviceFields THEN r.val ELSE NoBody]

NoFlowRet == [called |-> FALSE, exc |-> FALSE, partial |-> FALSE, val |-> NoBody]

\* max_attempts = (max_minutes * 60) // interval, for interval # 0
MaxAttempts(max_minutes, interval) == (max_minutes * 60) \div interval

\* data.get('error_description', data.get('error', 'Unknown error'))
ErrorText(data) ==
    IF "error_description" \in data.has THEN data.error_description
    ELSE IF "error" \in data.has THEN data.error
    ELSE "Unknown error"

\* the variant that retries on every error it does not know
PollHandleRetryUnknown(resp) ==
    IF resp.kind = "netfail"
    THEN [act |-> "raise", store |-> FALSE, tok |-> None, msg |-> Msg("ConnectionError")]
    ELSE IF resp.status = 200 /\ resp.json /\ "access_token" \in resp.body.has
    THEN IF IsString(resp.body.access_token)
              THEN [act |-> "return", store |-> TRUE,
                    tok |-> resp.body.access_token, msg |-> <<>>]
              ELSE [act |-> "raise", store |-> TRUE,
                    tok |-> resp.body.access_token, msg |-> Msg("TypeError")]
    ELSE IF resp.status = 200 /\ ~resp.json
    THEN [act |-> "raise", store |-> FALSE, tok |-> None, msg |-> Msg("JSONDecodeError")]
    ELSE IF resp.status = 200 /\ resp.body.error = "expired_token"
    THEN [act |-> "raise", store |-> FALSE, tok |-> None, msg |-> Msg("Device code expired")]
    ELSE IF resp.status = 200 /\ resp.body.error = "access_denied"
    THEN [act |-> "raise", store |-> FALSE, tok |-> None,
          msg |-> Msg("User denied authorization")]
    ELSE [act |-> "sleep", store |-> FALSE, tok |-> None, msg |-> <<>>]

\* the variant that gives up on a status other than 200
PollHandleFailNon200(resp) ==
    IF resp.kind = "netfail"
    THEN [act |-> "raise", store |-> FALSE, tok |-> None, msg |-> Msg("ConnectionError")]
    ELSE IF resp.status # 200
    THEN [act |-> "raise", store |-> FALSE, tok |-> None, msg |-> Msg("HTTP error")]
    ELSE IF ~resp.json
    THEN [act |-> "raise", store |-> FALSE, tok |-> None, msg |-> Msg("JSONDecodeError")]
    ELSE IF "access_token" \in resp.body.has
    THEN IF IsString(resp.body.access_token)
              THEN [act |-> "return", store |-> TRUE,
                    tok |-> resp.body.access_token, msg |-> <<>>]
              ELSE [act |-> "raise", store |-> TRUE,
                    tok |-> resp.body.access_token, msg |-> Msg("TypeError")]
    ELSE IF resp.body.error = "authorization_pending"
    THEN [act |-> "sleep", store |-> FALSE, tok |-> None, msg |-> <<>>]
    ELSE IF resp.body.error = "expired_token"
    THEN [act |-> "raise", store |-> FALSE, tok |-> None, msg |-> Msg("Device code expired")]
    ELSE IF resp.body.error = "access_denied"
    THEN [act |-> "raise", store |-> FALSE, tok |-> None,
          msg |-> Msg("User denied authorization")]
    ELSE [act |-> "raise", store |-> FALSE, tok |-> None,
          msg |-> <<"Authorization error", ErrorText(resp.body)>>]

\* one iteration of the loop of poll_for_token on the response it received:
\* return the token, sleep and go on, or raise. `store` says that line 76
\* assigned `tok` to self.access_token; a value that is not a str is assigned
\* and then makes the slice of line 77 raise TypeError
PollHandle(resp) ==
    IF resp.kind = "netfail"
    THEN [act |-> "raise", store |-> FALSE, tok |-> None, msg |-> Msg("ConnectionError")]
    ELSE IF resp.status = 200
    THEN IF ~resp.json
         THEN [act |-> "raise", store |-> FALSE, tok |-> None, msg |-> Msg("JSONDecodeError")]
         ELSE IF "access_token" \in resp.body.has
         THEN IF IsString(resp.body.access_token)
              THEN [act |-> "return", store |-> TRUE,
                    tok |-> resp.body.access_token, msg |-> <<>>]
              ELSE [act |-> "raise", store |-> TRUE,
                    tok |-> resp.body.access_token, msg |-> Msg("TypeError")]
         ELSE IF resp.body.error = "authorization_pending"
         THEN [act |-> "sleep", store |-> FALSE, tok |-> None, msg |-> <<>>]
         ELSE IF resp.body.error = "expired_token"
         THEN [act |-> "raise", store |-> FALSE, tok |-> None, msg |-> Msg("Device code expired")]
         ELSE IF resp.body.error = "access_denied"
         THEN [act |-> "raise", store |-> FALSE, tok |-> None,
          msg |-> Msg("User denied authorization")]
         ELSE [act |-> "raise", store |-> FALSE, tok |-> None,
               msg |-> <<"Authorization error", ErrorText(resp.body)>>]
    ELSE [act |-> "sleep", store |-> FALSE, tok |-> None, msg |-> <<>>]

TimedOut == Msg("Authorization timed out")

\* the GitHubDeviceFlow object a direct poll_for_token call is made on
DirectClient == "c0"

NoOut == [kind |-> "none", tok |-> None, msg |-> <<>>]

NoFrame == [client |-> DirectClient, device_code |-> None, interval |-> 0, max_minutes |-> 0,
            max_attempts |-> 0, attempt |-> 0, caller |-> "none"]

\* no identity: the None get_user_info returns
NoUserInfo == [some |-> FALSE, has |-> {}, dict |-> TRUE]

\* GitHubDeviceFlow.get_user_info: the identity, None on any failure; the
\* bare except of line 114 also catches a KeyboardInterrupt
get_user_info(tok, uresp) ==
    IF ~Truthy(tok) THEN [some |-> FALSE, has |-> {}, dict |-> TRUE]
    ELSE IF uresp.kind = "http" /\ uresp.status = 200 /\ uresp.json
    THEN [some |-> TRUE, has |-> uresp.has, dict |-> uresp.dict]
    ELSE [some |-> FALSE, has |-> {}, dict |-> TRUE]

----------------------------------------------------------------------------
(* The session slot and the two session operations *)

\* device_flow = GitHubDeviceFlow()   (line 129).  Nothing but the slot refers
\* to a stored object between two calls, so the object of a replaced slot is
\* gone when the start that replaced it returns: at most one stored object is
\* alive, and the model names it NewClient.  What a start creates is a new
\* object: its access_token is None (DropClients)
NewClient == "c1"

\* the GitHubDeviceFlow objects the slot can hold
Clients == {NewClient}

NoSession == [set |-> FALSE, device_flow |-> None, device_code |-> None,
              interval |-> 0, user_code |-> None, expires_in |-> JNull]

\* a returned text, by what it says
Payload(kind, msg) ==
    [kind |-> kind, msg |-> msg, user_code |-> None, minutes |-> 0,
     login |-> None, saved |-> FALSE]

NoResult == Payload("none", <<>>)

\* the order in which start_github_authorization reads the fields (lines 132-136)
ReadOrder == <<"user_code", "verification_uri", "device_code", "interval", "expires_in">>

RECURSIVE FirstMissing(_, _)
FirstMissing(has, i) ==
    IF i > Len(ReadOrder) THEN None
    ELSE IF ReadOrder[i] \notin has THEN ReadOrder[i]
    ELSE FirstMissing(has, i + 1)

\* the try block of start_github_authorization on the response of the
\* device-code request; `client` is the GitHubDeviceFlow object it created.
\* A failing webbrowser.open is caught inside and changes nothing. The slot is
\* assigned (stored) once the five fields were read; expires_in // 60 in the
\* returned text (line 182) raises afterwards when expires_in is not a number.
\* The first print (line 127) comes before the client is created. `browser`
\* is what webbrowser.open (line 152) did: "ok" (also when it failed with an
\* Exception, which line 154 catches) or "interrupt", a Ctrl-C while it ran,
\* which comes after the slot was assigned. `base` marks an exception that is
\* no Exception.
StartBody(resp, client, enc, browser) ==
    LET r == start_device_flow(resp)
        miss == FirstMissing(r.val.has, 1)
        slot == [set |-> TRUE, device_flow |-> client,
                 device_code |-> r.val.device_code,
                 interval |-> r.val.interval,
                 user_code |-> UserCode,
                 expires_in |-> r.val.expires_in]
    IN  IF ~CanPrint(enc)
        THEN [exc |-> TRUE, base |-> FALSE, msg |-> EncodeError, stored |-> FALSE,
              slot |-> NoSession, payload |-> NoResult, flow |-> NoFlowRet]
        ELSE IF r.exc
        THEN [exc |-> TRUE, base |-> r.msg = Interrupted, msg |-> r.msg,
              stored |-> FALSE, slot |-> NoSession,
              payload |-> NoResult, flow |-> FlowSummary(r)]
        ELSE IF miss # None
        THEN [exc |-> TRUE, base |-> FALSE, msg |-> <<"KeyError", miss>>,
              stored |-> FALSE,
              slot |-> NoSession, payload |-> NoResult, flow |-> FlowSummary(r)]
        ELSE IF browser = "interrupt"
        THEN [exc |-> TRUE, base |-> TRUE, msg |-> Interrupted, stored |-> TRUE,
              slot |-> slot, payload |-> NoResult, flow |-> FlowSummary(r)]
        ELSE IF r.val.expires_in.type # "number"
        THEN [exc |-> TRUE, base |-> FALSE, msg |-> Msg("TypeError"), stored |-> TRUE,
              slot |-> slot, payload |-> NoResult, flow |-> FlowSummary(r)]
        ELSE [exc |-> FALSE, base |-> FALSE, msg |-> <<>>, stored |-> TRUE,
              slot |-> slot,
              flow |-> FlowSummary(r),
              payload |-> [Payload("instructions", <<>>) EXCEPT
                              !.user_code = UserCode,
                              !.minutes = r.val.expires_in.n \div 60]]

\* device_flow_storage = {...}, reached when every field was read
\* (lines 139-145)
StoreSlot(old, o) == IF o.stored THEN o.slot ELSE old

\* except Exception as e: error_msg = ...; print(error_msg); return error_msg
\* (lines 190-193): an exception that is no Exception (o.base) passes the
\* handler, and when the print cannot be encoded the handler raises
StartExcept(o, enc) ==
    IF o.exc /\ o.base
    THEN [raised |-> TRUE, result |-> Payload("exception", o.msg)]
    ELSE IF o.exc /\ ~CanPrint(enc)
    THEN [raised |-> TRUE, result |-> Payload("exception", EncodeError)]
    ELSE [raised |-> FALSE,
          result |-> IF o.exc
                     THEN Payload("error", <<"Error starting GitHub authorization">> \o o.msg)
                     ELSE o.payload]

\* the variant of the handler of complete_github_authorization that lets it out
CompleteExceptNone(o, enc) ==
    [raised |-> o.exc, result |-> IF o.exc THEN NoResult ELSE o.payload]

\* except Exception as e: error_msg = ...; print(error_msg); return error_msg
\* (lines 260-263): an exception that is not an Exception (o.base) passes the
\* handler, and when the print cannot be encoded the handler raises
CompleteExcept(o, enc) ==
    IF o.exc /\ o.base
    THEN [raised |-> TRUE, result |-> Payload("exception", o.msg)]
    ELSE IF o.exc /\ ~CanPrint(enc)
    THEN [raised |-> TRUE, result |-> Payload("exception", EncodeError)]
    ELSE [raised |-> FALSE,
          result |-> IF o.exc
                     THEN Payload("error", <<"Error completing authorization">> \o o.msg)
                     ELSE o.payload]

\* the variant that never finds the slot empty
AlwaysActive(storage) == FALSE

\* not device_flow_storage   (line 202)
SessionEmpty(storage) == ~storage.set

NoFlowFound == Payload("no_flow", Msg("No authorization flow found"))

\* the variant that pauses one second whatever the interval
SleepOneSecond(interval) == 1

\* the argument of time.sleep (lines 81 and 92)
SleepSeconds(interval) == interval

\* the variant that runs one iteration more
LoopContinuesOneMore(attempt, max_attempts) == attempt <= max_attempts

\* for attempt in range(max_attempts)   (line 56)
LoopContinues(attempt, max_attempts) == attempt < max_attempts

\* the lines of poll_for_token before its loop (lines 52-56)
PollEnter(client, device_code, interval, max_minutes, caller, enc) ==
    LET f == [client |-> client, device_code |-> device_code,
              interval |-> interval, max_minutes |-> max_minutes,
              max_attempts |-> 0, attempt |-> 0, caller |-> caller]
    IN  IF ~CanPrint(enc)
        THEN [frame |-> f, pc |-> "poll_done",
              out |-> [kind |-> "raise", tok |-> None, msg |-> EncodeError]]
        ELSE IF interval = 0
        THEN [frame |-> f, pc |-> "poll_done",
              out |-> [kind |-> "raise", tok |-> None, msg |-> Msg("ZeroDivisionError")]]
        ELSE [frame |-> [f EXCEPT !.max_attempts = MaxAttempts(max_minutes, interval)],
              pc |-> "loop", out |-> NoOut]

\* the side effects of the success branch, in the order of lines 225, 229, 233
SuccessOrder == <<"setenv", "get_user_info", "save_token_to_env">>

\* the variant that drops the environment token when the poll raised
CompleteTailClearEnv(out, env) ==
    IF out.kind = "raise"
    THEN [exc |-> TRUE, base |-> out.msg = Interrupted, msg |-> out.msg,
          payload |-> NoResult, environ |-> None, go |-> FALSE]
    ELSE IF ~Truthy(out.tok)
    THEN [exc |-> FALSE, base |-> FALSE, msg |-> <<>>,
          payload |-> Payload("failed", Msg("Failed to get access token")),
          environ |-> env, go |-> FALSE]
    ELSE IF ~EnvAccepts(out.tok)
    THEN [exc |-> TRUE, base |-> FALSE, msg |-> Msg("ValueError"),
          payload |-> NoResult, environ |-> env, go |-> FALSE]
    ELSE [exc |-> FALSE, base |-> FALSE, msg |-> <<>>, payload |-> NoResult,
          environ |-> out.tok, go |-> TRUE]

\* the lines of complete_github_authorization from the return of
\* poll_for_token to the environment token (lines 219-226, 255-258): `out` is
\* how the poll ended, env the environment token. An exception of the poll
\* goes to the handler (a KeyboardInterrupt is no Exception: base); a value
\* that is not truthy gives the failed text; line 225 raises on a token
\* os.environ refuses; otherwise the token is set and the call goes on (go)
CompleteTail(out, env) ==
    IF out.kind = "raise"
    THEN [exc |-> TRUE, base |-> out.msg = Interrupted, msg |-> out.msg,
          payload |-> NoResult, environ |-> env, go |-> FALSE]
    ELSE IF ~Truthy(out.tok)
    THEN [exc |-> FALSE, base |-> FALSE, msg |-> <<>>,
          payload |-> Payload("failed", Msg("Failed to get access token")),
          environ |-> env, go |-> FALSE]
    ELSE IF ~EnvAccepts(out.tok)
    THEN [exc |-> TRUE, base |-> FALSE, msg |-> Msg("ValueError"),
          payload |-> NoResult, environ |-> env, go |-> FALSE]
    ELSE [exc |-> FALSE, base |-> FALSE, msg |-> <<>>, payload |-> NoResult,
          environ |-> out.tok, go |-> TRUE]

\* the text of lines 235-254 on the identity `ui` and the value `sv` of
\* save_token_to_env: user_info.get raises on an identity body that is not
\* an object; an exception save_token_to_env let out goes to the handler
SuccessText(ui, sv) ==
    LET known == ui.some /\ ui.has # {}
    IN  IF sv.raised
        THEN [exc |-> TRUE, base |-> sv.base,
              msg |-> IF sv.base THEN Interrupted ELSE EncodeError,
              payload |-> NoResult]
        ELSE IF ui.some /\ ~ui.dict
        THEN [exc |-> TRUE, base |-> FALSE, msg |-> Msg("AttributeError"),
              payload |-> NoResult]
        ELSE [exc |-> FALSE, base |-> FALSE, msg |-> <<>>,
              payload |-> [Payload("success", <<>>) EXCEPT
                  !.login = IF ~known THEN "Unknown"
                            ELSE IF "login" \in ui.has THEN "login" ELSE None,
                  !.saved = sv.ret]]

----------------------------------------------------------------------------
(* Initial states *)

FileA == <<"x", NewLine, KeyText, "t1", NewLine>>
FileB == <<"x">>

\* which candidate paths exist when the process starts, and what they hold
InitFiles ==
    {[p \in Paths |-> Absent],
     [p \in Paths |-> IF p = 2 THEN FileA ELSE Absent],
     [p \in Paths |-> IF p = 1 THEN FileB ELSE IF p = 3 THEN FileA ELSE Absent]}

\* the state every run starts from; the import printed its banner (line 660),
\* so stdout is an encoding that can print
InitCommon ==
    /\ device_flow_storage = NoSession
    /\ access_token = [c \in {DirectClient} \cup Clients |-> None]
    /\ stdout \in {e \in Encodings : CanPrint(e)}
    /\ user_info = NoUserInfo
    /\ pc = "idle"
    /\ call = "none"
    /\ frame = NoFrame
    /\ requests = 0
    /\ non200 = 0
    /\ sleeps = 0
    /\ last_sleep = 0
    /\ last_resp = NoResp
    /\ poll_out = NoOut
    /\ flow_ret = NoFlowRet
    /\ result = NoResult
    /\ raised = FALSE
    /\ last_ok = NoSession
    /\ trace = <<>>
    /\ save_pre = Absent
    /\ save_tok = None
    /\ save_ret = FALSE
    /\ save_path = 0
    /\ save_io = NoIO

\* the module was imported: load_dotenv() ran on the files, in a process that
\* had inherited the environment token or not, from any working directory
\* and in any launch mode
Init ==
    /\ InitCommon
    /\ fs \in InitFiles
    /\ \E env \in InheritedEnv, cwd \in CwdRelations, from_cwd \in BOOLEAN :
          environ = load_dotenv(fs, env, cwd, from_cwd)

----------------------------------------------------------------------------
(* Operations *)

pollVars == <<frame, requests, non200, sleeps, last_sleep, last_resp, poll_out>>
saveVars == <<save_pre, save_tok, save_ret, save_path, save_io>>

ResetPoll ==
    /\ frame' = NoFrame
    /\ requests' = 0
    /\ non200' = 0
    /\ sleeps' = 0
    /\ last_sleep' = 0
    /\ last_resp' = NoResp
    /\ poll_out' = NoOut

ResetSave ==
    /\ save_pre' = Absent
    /\ save_tok' = None
    /\ save_ret' = FALSE
    /\ save_path' = 0
    /\ save_io' = NoIO

\* the assignment of lines 139-145 drops the only reference to the client of
\* the slot it replaces; the new client has no token yet (line 20)
DropClients == [c \in {DirectClient} \cup Clients |-> None]

\* what webbrowser.open can do that line 154 does not catch
BrowserOutcomes == {"ok", "interrupt"}

\* start_github_authorization(), the device-code request answered by resp
start_github_authorization(resp, browser) ==
    /\ pc = "idle"
    /\ browser # "ok" => FirstMissing(start_device_flow(resp).val.has, 1) = None
    /\ LET o == StartBody(resp, NewClient, stdout, browser)
           h == StartExcept(o, stdout)
       IN  /\ device_flow_storage' = StoreSlot(device_flow_storage, o)
           /\ flow_ret' = o.flow
           /\ access_token' = IF o.stored THEN DropClients ELSE access_token
           /\ last_ok' = IF h.result.kind = "instructions" THEN o.slot ELSE last_ok
           /\ result' = h.result
           /\ raised' = h.raised
    /\ call' = "start"
    /\ trace' = <<>>
    /\ ResetPoll
    /\ ResetSave
    /\ UNCHANGED <<environ, fs, pc, stdout, user_info>>

\* complete_github_authorization() up to the first token request
complete_github_authorization ==
    /\ pc = "idle"
    /\ call' = "complete"
    /\ trace' = <<>>
    /\ flow_ret' = NoFlowRet
    /\ ResetSave
    /\ requests' = 0
    /\ non200' = 0
    /\ sleeps' = 0
    /\ last_sleep' = 0
    /\ last_resp' = NoResp
    /\ IF ~CanPrint(stdout)
       THEN LET h == CompleteExcept([exc |-> TRUE, base |-> FALSE, msg |-> EncodeError,
                                     payload |-> NoResult], stdout)
            IN  /\ result' = h.result
                /\ raised' = h.raised
                /\ frame' = NoFrame
                /\ poll_out' = NoOut
                /\ pc' = "idle"
       ELSE IF SessionEmpty(device_flow_storage)
       THEN /\ result' = NoFlowFound
            /\ raised' = FALSE
            /\ frame' = NoFrame
            /\ poll_out' = NoOut
            /\ pc' = "idle"
       ELSE LET e == PollEnter(device_flow_storage.device_flow,
                               device_flow_storage.device_code,
                               device_flow_storage.interval,
                               DefaultMaxMinutes, "complete", stdout)
            IN  /\ frame' = e.frame
                /\ poll_out' = e.out
                /\ pc' = e.pc
                /\ result' = NoResult
                /\ raised' = FALSE
    /\ UNCHANGED <<device_flow_storage, access_token, environ, fs, last_ok,
                   stdout, user_info>>

MaxMinutesSet == {0, DefaultMaxMinutes, 15}

\* GitHubDeviceFlow().poll_for_token(device_code, interval, max_minutes) called
\* on a new client (DirectClient), up to the first token request
poll_for_token(device_code, interval, max_minutes) ==
    /\ pc = "idle"
    /\ access_token' = [access_token EXCEPT ![DirectClient] = None]
    /\ call' = "poll"
    /\ trace' = <<>>
    /\ flow_ret' = NoFlowRet
    /\ ResetSave
    /\ requests' = 0
    /\ non200' = 0
    /\ sleeps' = 0
    /\ last_sleep' = 0
    /\ last_resp' = NoResp
    /\ result' = NoResult
    /\ raised' = FALSE
    /\ LET e == PollEnter(DirectClient, device_code, interval, max_minutes, "direct", stdout)
       IN  /\ frame' = e.frame
           /\ poll_out' = e.out
           /\ pc' = e.pc
    /\ UNCHANGED <<device_flow_storage, environ, fs, last_ok, stdout, user_info>>

\* one token request of the poll loop, answered by resp (lines 56-93 up to the sleep)
poll_request(resp) ==
    /\ pc = "loop"
    /\ LoopContinues(frame.attempt, frame.max_attempts)
    /\ requests' = requests + 1
    /\ non200' = IF frame.caller = "direct" /\ Non200(resp) THEN non200 + 1 ELSE non200
    /\ last_resp' = IF frame.caller = "direct" THEN resp ELSE NoResp
    /\ LET h == PollHandle(resp)
       IN  /\ access_token' = IF h.store
                              THEN [access_token EXCEPT ![frame.client] = h.tok]
                              ELSE access_token
           /\ poll_out' = IF h.act = "return"
                          THEN [kind |-> "return", tok |-> h.tok, msg |-> <<>>]
                          ELSE IF h.act = "raise"
                          THEN [kind |-> "raise", tok |-> None, msg |-> h.msg]
                          ELSE poll_out
           /\ pc' = IF h.act = "sleep" THEN "sleep" ELSE "poll_done"
    /\ UNCHANGED <<device_flow_storage, environ, fs, call, frame, sleeps,
                   last_sleep, flow_ret, result, raised, last_ok, trace, stdout, user_info>>
    /\ UNCHANGED saveVars

\* time.sleep(interval); continue   (lines 81-82 and 92-93)
poll_sleep ==
    /\ pc = "sleep"
    /\ sleeps' = sleeps + 1
    /\ last_sleep' = SleepSeconds(frame.interval)
    /\ frame' = [frame EXCEPT !.attempt = frame.attempt + 1]
    /\ last_resp' = NoResp
    /\ pc' = "loop"
    /\ UNCHANGED <<device_flow_storage, access_token, environ, fs, call,
                   requests, non200, poll_out, flow_ret, result, raised, last_ok, trace,
                   stdout, user_info>>
    /\ UNCHANGED saveVars

\* Ctrl-C while poll_for_token waits: in requests.post (line 59), which was
\* called and sent its request, or in time.sleep (lines 81, 92), which was
\* called. The KeyboardInterrupt ends the poll; it passes the handler of
\* line 97
interrupt(in_sleep) ==
    /\ IF in_sleep THEN pc = "sleep"
       ELSE pc = "loop" /\ LoopContinues(frame.attempt, frame.max_attempts)
    /\ requests' = IF in_sleep THEN requests ELSE requests + 1
    /\ sleeps' = IF in_sleep THEN sleeps + 1 ELSE sleeps
    /\ last_sleep' = IF in_sleep THEN SleepSeconds(frame.interval) ELSE last_sleep
    /\ poll_out' = [kind |-> "raise", tok |-> None, msg |-> Interrupted]
    /\ pc' = "poll_done"
    /\ UNCHANGED <<device_flow_storage, access_token, environ, fs, call,
                   frame, non200, last_resp, flow_ret, result, raised,
                   last_ok, trace, stdout, user_info>>
    /\ UNCHANGED saveVars

\* the loop ran out: raise "Authorization timed out"   (line 95)
poll_timeout ==
    /\ pc = "loop"
    /\ ~LoopContinues(frame.attempt, frame.max_attempts)
    /\ poll_out' = [kind |-> "raise", tok |-> None, msg |-> TimedOut]
    /\ pc' = "poll_done"
    /\ UNCHANGED <<device_flow_storage, access_token, environ, fs, call,
                   frame, requests, non200, sleeps, last_sleep, last_resp, flow_ret,
                   result, raised, last_ok, trace, stdout, user_info>>
    /\ UNCHANGED saveVars

\* poll_for_token came back to complete_github_authorization (lines 219-226,
\* 255-263): the call ends with a text or an exception, or it has set the
\* environment token and goes on to the identity request
complete_return ==
    /\ pc = "poll_done"
    /\ frame.caller = "complete"
    /\ LET t == CompleteTail(poll_out, environ)
           h == CompleteExcept(t, stdout)
       IN  /\ environ' = t.environ
           /\ IF t.go
              THEN /\ pc' = "identity"
                   /\ trace' = SubSeq(SuccessOrder, 1, 1)
                   /\ UNCHANGED <<result, raised>>
                   /\ UNCHANGED pollVars
              ELSE /\ pc' = "idle"
                   /\ trace' = <<>>
                   /\ result' = h.result
                   /\ raised' = h.raised
                   /\ ResetPoll
    /\ UNCHANGED <<device_flow_storage, access_token, fs, call, flow_ret, last_ok,
                   stdout, user_info>>
    /\ UNCHANGED saveVars

\* user_info = device_flow.get_user_info()   (lines 229-230), the identity
\* request answered by uresp
complete_identity(uresp) ==
    /\ pc = "identity"
    /\ user_info' = get_user_info(access_token[frame.client], uresp)
    /\ trace' = SubSeq(SuccessOrder, 1, 2)
    /\ pc' = "save"
    /\ UNCHANGED <<device_flow_storage, access_token, environ, fs, call, flow_ret,
                   result, raised, last_ok, stdout>>
    /\ UNCHANGED pollVars
    /\ UNCHANGED saveVars

\* env_saved = save_token_to_env(access_token) and the returned text
\* (lines 233-254, 260-263); io is what the file system did in the save
complete_save(io) ==
    /\ pc = "save"
    /\ LET sv == save_token_to_env(fs, poll_out.tok, io, stdout)
           t == SuccessText(user_info, sv)
           h == CompleteExcept(t, stdout)
       IN  /\ fs' = sv.files
           /\ result' = h.result
           /\ raised' = h.raised
    /\ save_tok' = poll_out.tok
    /\ trace' = SuccessOrder
    /\ user_info' = NoUserInfo
    /\ pc' = "idle"
    /\ ResetPoll
    /\ UNCHANGED <<device_flow_storage, access_token, environ, call, flow_ret,
                   last_ok, stdout, save_pre, save_ret, save_path, save_io>>

\* poll_for_token came back to the caller that called it on a new client;
\* that client is dropped with the call
poll_return ==
    /\ pc = "poll_done"
    /\ frame.caller = "direct"
    /\ result' = Payload(IF poll_out.kind = "return" THEN "token" ELSE "exception",
                         IF poll_out.kind = "return" THEN Msg(poll_out.tok)
                         ELSE poll_out.msg)
    /\ raised' = (poll_out.kind = "raise")
    /\ pc' = "idle"
    /\ access_token' = [access_token EXCEPT ![DirectClient] = None]
    /\ ResetPoll
    /\ UNCHANGED <<device_flow_storage, environ, fs, call,
                   flow_ret, last_ok, trace, stdout, user_info>>
    /\ UNCHANGED saveVars

\* the authorization flow: start_github_authorization and
\* complete_github_authorization called in any order
Next ==
    \/ \E resp \in DeviceResponses, browser \in BrowserOutcomes :
          start_github_authorization(resp, browser)
    \/ complete_github_authorization
    \/ \E resp \in PollResponses : poll_request(resp)
    \/ poll_sleep
    \/ poll_timeout
    \/ \E in_sleep \in BOOLEAN : interrupt(in_sleep)
    \/ complete_return
    \/ \E uresp \in UserResponses : complete_identity(uresp)
    \/ \E io \in IOOutcomes : complete_save(io)

Spec == Init /\ [][Next]_vars

\* poll_for_token called on its own, with any interval and max_minutes
NextPoll ==
    \/ \E iv \in Intervals, mm \in MaxMinutesSet : poll_for_token("d1", iv, mm)
    \/ \E resp \in PollResponses : poll_request(resp)
    \/ poll_sleep
    \/ poll_timeout
    \/ \E in_sleep \in BOOLEAN : interrupt(in_sleep)
    \/ poll_return

SpecPoll == Init /\ [][NextPoll]_vars

----------------------------------------------------------------------------
(* save_token_to_env alone, on every configuration file up to MaxFileLen *)

RECURSIVE TextsOfLen(_)
TextsOfLen(n) ==
    IF n = 0 THEN {<<>>}
    ELSE {Append(t, a) : t \in TextsOfLen(n - 1), a \in Alphabet}

Texts == UNION {TextsOfLen(n) : n \in 0..MaxFileLen}

\* hand-written .env files: an export prefix, a quoted value, a comment
\* after the value, a blank before the key, a blank value, a key that is
\* commented out, a quote that is never closed, and the key bound twice
DotenvFiles ==
    {<<Export, Blank, KeyText, "t1">>,
     <<KeyText, Quote, "t1", Quote>>,
     <<KeyText, "t1", Blank, Hash, "x">>,
     <<Blank, KeyText, "t1">>,
     <<KeyText, Blank>>,
     <<Hash, KeyText, "t1">>,
     <<KeyText, Quote, "t1">>,
     <<KeyText, "t1", NewLine, KeyText, "t2", NewLine>>}

\* one candidate path holds any text, or two of them hold a short text, or
\* the module directory holds a hand-written file
SaveInitFiles ==
    {[p \in Paths |-> IF p = q THEN t ELSE Absent] : q \in Paths, t \in Texts}
    \cup InitFiles
    \cup {[p \in Paths |-> IF p = 3 THEN t ELSE Absent] : t \in DotenvFiles}

\* the module was imported by a script, in a process without the environment
\* token whose working directory is neither above nor below the module
\* directory
InitSave ==
    /\ InitCommon
    /\ fs \in SaveInitFiles
    /\ environ = load_dotenv(fs, None, "apart", FALSE)

\* save_token_to_env(tok) called on its own
call_save_token_to_env(tok, io) ==
    /\ pc = "idle"
    /\ call' = "save"
    /\ LET sv == save_token_to_env(fs, tok, io, stdout)
       IN  /\ fs' = sv.files
           /\ save_pre' = sv.pre
           /\ save_ret' = sv.ret
           /\ save_path' = sv.path
           /\ raised' = sv.raised
    /\ save_tok' = tok
    /\ save_io' = IF CanPrint(stdout) THEN io ELSE NoIO
    /\ UNCHANGED <<device_flow_storage, access_token, environ, pc, frame,
                   requests, non200, sleeps, last_sleep, last_resp, poll_out,
                   flow_ret, result, last_ok, trace, stdout, user_info>>

NextSave == \E tok \in Tokens, io \in IOOutcomes : call_save_token_to_env(tok, io)

SpecSave == InitSave /\ [][NextSave]_vars

----------------------------------------------------------------------------
(* Properties of poll_for_token *)

\* the last token request received a 200 response with a JSON body
JsonResponse ==
    last_resp.kind = "http" /\ last_resp.status = 200 /\ last_resp.json

\* ... whose body holds an access_token field
TokenResponse == JsonResponse /\ "access_token" \in last_resp.body.has

\* floor(max_minutes * 60 / interval) of the running poll
AttemptBudget == (frame.max_minutes * 60) \div frame.interval

\* C1: the first 200 response whose body holds access_token ends the poll:
\* the token is stored on the polled client and returned, the loop is left
\* (no request and no sleep can follow), and no sleep was made after that
\* response, whatever else the body holds and however many attempts are left.
C1_ReturnsFirstToken ==
    TokenResponse =>
        /\ pc = "poll_done"
        /\ poll_out = [kind |-> "return", tok |-> last_resp.body.access_token,
                       msg |-> <<>>]
        /\ access_token[frame.client] = last_resp.body.access_token
        /\ sleeps = requests - 1

\* C2: for a positive interval a poll sends at most
\* floor(max_minutes*60 / interval) token requests, and a poll that ends
\* without a response that ended it (no token, no fatal answer) and without
\* the user interrupting it ends with the timed-out error after exactly that
\* many requests; the steps of a poll are bounded, so it terminates.
C2_AttemptBudget ==
    (frame.caller # "none" /\ frame.interval > 0) =>
        /\ requests <= AttemptBudget
        /\ sleeps <= requests
        /\ (pc = "poll_done" /\ last_resp = NoResp
                /\ poll_out.msg # Interrupted) =>
               /\ poll_out = [kind |-> "raise", tok |-> None, msg |-> TimedOut]
               /\ requests = AttemptBudget
        /\ poll_out.msg = TimedOut => requests = AttemptBudget

\* a poll of three attempts that timed out
C2_Witness ==
    /\ pc = "poll_done"
    /\ poll_out.msg = TimedOut
    /\ requests = 3
    /\ frame.interval > 0

\* C3: a 200 response without access_token whose error is not
\* authorization_pending ends the poll at once with an exception: the
\* device-code-expired one for expired_token, the authorization-denied one for
\* access_denied, and for any other error the protocol error that carries the
\* provider's error_description (the error value when there is none); no sleep
\* follows that response.
C3_FatalErrors ==
    (/\ JsonResponse
     /\ "access_token" \notin last_resp.body.has
     /\ "error" \in last_resp.body.has
     /\ last_resp.body.error # "authorization_pending") =>
        /\ pc = "poll_done"
        /\ poll_out.kind = "raise"
        /\ sleeps = requests - 1
        /\ poll_out.msg =
              IF last_resp.body.error = "expired_token"
              THEN Msg("Device code expired")
              ELSE IF last_resp.body.error = "access_denied"
              THEN Msg("User denied authorization")
              ELSE IF "error_description" \in last_resp.body.has
              THEN <<"Authorization error", last_resp.body.error_description>>
              ELSE <<"Authorization error", last_resp.body.error>>

\* an unknown error with a description, on the second of three attempts
C3_Witness ==
    /\ JsonResponse
    /\ last_resp.body.error = "slow_down"
    /\ "error_description" \in last_resp.body.has
    /\ "access_token" \notin last_resp.body.has
    /\ requests = 2
    /\ frame.max_attempts = 3
    /\ poll_out.msg = <<"Authorization error", "desc">>

----------------------------------------------------------------------------
(* Properties of the session operations *)

\* C4: complete_github_authorization called while the session slot is empty
\* returns the no-authorization-flow text without raising, sends no token
\* request, and leaves the slot, the environment token, the clients and the
\* configuration files as they were.
C4_NoSession ==
    [][(pc = "idle" /\ call' = "complete" /\ ~device_flow_storage.set) =>
          /\ result' = NoFlowFound
          /\ raised' = FALSE
          /\ pc' = "idle"
          /\ requests' = 0
          /\ UNCHANGED <<device_flow_storage, access_token, environ, fs>>]_vars

\* complete was called with no session
C4_Witness ==
    /\ call = "complete"
    /\ pc = "idle"
    /\ ~device_flow_storage.set
    /\ result = NoFlowFound

TextKinds == {"instructions", "error", "no_flow", "success", "failed"}

\* C5: start_github_authorization and complete_github_authorization never let
\* an exception out, and what they return is a text, whatever the provider
\* answered (a KeyboardInterrupt of the user is no answer of the provider and
\* is left aside).
C5_NeverRaises ==
    (result.msg # Interrupted) =>
        /\ raised = FALSE
        /\ (pc = "idle" /\ call \in {"start", "complete"}) =>
               result.kind \in TextKinds

\* complete turned a network failure of a token request into a text
C5_Witness ==
    /\ call = "complete"
    /\ pc = "idle"
    /\ result.kind = "error"
    /\ result.msg = <<"Error completing authorization", "ConnectionError">>

\* C9: start_device_flow never hands a 200 body that lacks a required field
\* to its caller.
C9_RejectsPartialBody == flow_ret.called => ~flow_ret.partial

\* C10: the slot holds what the most recent start that returned instructions
\* (the most recent successful start) stored, and a running complete polls on
\* that client with that device code and interval.
C10_SingleSession ==
    /\ device_flow_storage = last_ok
    /\ frame.caller = "complete" =>
          /\ frame.client = last_ok.device_flow
          /\ frame.device_code = last_ok.device_code
          /\ frame.interval = last_ok.interval

----------------------------------------------------------------------------
(* Properties of save_token_to_env *)

\* the lines of a text that start with the key
KeyLinesOf(lines) == {i \in 1..Len(lines) : StartsWithKey(lines[i])}

\* C6: a successful save on a file that holds a line
\* GITHUB_PERSONAL_ACCESS_TOKEN=OLD (a line that starts with the key; the text
\* as read, its line ends all read as newlines) leaves the same number of
\* lines, the line GITHUB_PERSONAL_ACCESS_TOKEN=NEW at the position of that
\* line and nowhere else, and every other line as it was.
C6_ReplacesInPlace ==
    save_ret =>
        LET old == Split(save_pre)
            new == Split(fs[save_path])
        IN  \A i \in KeyLinesOf(old) :
                /\ Len(new) = Len(old)
                /\ new[i] = KeyLine(save_tok)
                /\ \A j \in 1..Len(old) : j # i => new[j] = old[j]
                /\ {j \in 1..Len(new) : new[j] = KeyLine(save_tok)} = {i}

\* C7: after a successful save at most one line of the file starts with the key.
C7_AtMostOneKeyLine ==
    save_ret => Cardinality(KeyLinesOf(Split(fs[save_path]))) <= 1

\* C8: a successful save on a file that has no key (no line of the text as
\* read starts with GITHUB_PERSONAL_ACCESS_TOKEN=) keeps every line as it was
\* and in order, and puts one line GITHUB_PERSONAL_ACCESS_TOKEN=<token> after
\* them (followed by the end of line that closes it).
C8_AppendsKeyLine ==
    (save_ret /\ KeyLinesOf(Split(save_pre)) = {}) =>
        LET old == Split(save_pre)
            new == Split(fs[save_path])
        IN  /\ new = old \o <<KeyLine(save_tok), <<>>>>
            /\ Cardinality(KeyLinesOf(new)) = 1

----------------------------------------------------------------------------
(* Properties settled on the full flow: client token, sleeps, side effects *)

\* C11: the access_token field of a client, once set, keeps its value for as
\* long as the slot holds the client (a start call is the one step that can
\* put another client in the slot).
C11_TokenNeverChanges ==
    [][\A c \in Clients :
          (/\ access_token[c] # None
           /\ device_flow_storage'.device_flow = c
           /\ call' # "start") =>
              access_token'[c] = access_token[c]]_vars

----------------------------------------------------------------------------
(* Properties of save_token_to_env: path choice and failures *)

\* the first candidate path, in the fixed order, that exists in `files`
LeastPresent(files) ==
    IF \A q \in Paths : files[q] = Absent THEN 0
    ELSE CHOOSE q \in Paths :
           files[q] # Absent /\ \A r \in Paths : r < q => files[r] = Absent

\* C12: save_token_to_env uses the first candidate path that exists and touches
\* no other; with no candidate it returns False and creates no file; when the
\* read or the write fails it returns False and raises nothing (a Ctrl-C of
\* the user is no failure of the read or the write and is left aside).
C12_FirstExistingOnly ==
    [][call' = "save" =>
         /\ save_path' = LeastPresent(fs)
         /\ \A q \in Paths : q # LeastPresent(fs) => fs'[q] = fs[q]
         /\ \A q \in Paths : fs[q] = Absent => fs'[q] = Absent
         /\ LeastPresent(fs) = 0 => ~save_ret' /\ fs' = fs
         /\ (LeastPresent(fs) # 0 /\ save_io' = IO("ok")) =>
                save_ret' /\ save_pre' = ReadText(fs[LeastPresent(fs)])
         /\ save_io' \in IOFailures => ~save_ret'
         /\ save_io' \notin IOInterrupts => ~raised']_vars

\* a save rewrote the first candidate while a later candidate exists too
C12_Witness ==
    /\ call = "save"
    /\ save_ret
    /\ save_path = 1
    /\ fs[3] # Absent
    /\ fs[1] # save_pre

----------------------------------------------------------------------------
(* Properties of the poll loop: sleeps and non-200 responses *)

\* the last token request received authorization_pending
PendingResponse ==
    JsonResponse /\ "access_token" \notin last_resp.body.has
                 /\ last_resp.body.error = "authorization_pending"

\* C13: within one poll_for_token call every sleep follows a request, there is
\* exactly one sleep between two consecutive requests, each sleep lasts
\* interval seconds, and nothing sleeps before the first request.
C13_OneSleepBetweenRequests ==
    /\ requests = 0 => sleeps = 0
    /\ pc = "loop" => sleeps = requests
    /\ pc = "sleep" => sleeps + 1 = requests
    /\ pc = "poll_done" => sleeps \in {requests, requests - 1}
    /\ sleeps > 0 => last_sleep = frame.interval

\* a second request received authorization_pending after the first one did,
\* with one sleep of interval seconds in between
C13_Witness ==
    /\ pc = "sleep"
    /\ PendingResponse
    /\ requests = 2
    /\ non200 = 0
    /\ sleeps = 1
    /\ last_sleep = frame.interval
    /\ frame.interval = 300

\* C14: a response with a status other than 200 ends nothing: the poll goes to
\* its sleep with no outcome (only a Ctrl-C from outside ends it there); every
\* request so far, that one included, used one iteration of the loop; a poll
\* that received such responses and nothing else, and was not interrupted from
\* outside, ends in the timeout error after max_attempts requests.
C14_Non200Absorbed ==
    /\ Non200(last_resp) =>
          \/ pc = "sleep" /\ poll_out = NoOut
          \/ pc = "poll_done" /\ poll_out.msg = Interrupted
    /\ pc = "loop" => frame.attempt = requests
    /\ pc = "sleep" => frame.attempt + 1 = requests
    /\ (pc = "poll_done" /\ requests > 0 /\ non200 = requests
          /\ poll_out.msg # Interrupted) =>
          /\ poll_out.kind = "raise"
          /\ poll_out.msg = TimedOut
          /\ requests = frame.max_attempts

\* a poll of three attempts received three non-200 responses and timed out
C14_Witness ==
    /\ pc = "poll_done"
    /\ poll_out.msg = TimedOut
    /\ frame.max_attempts = 3
    /\ requests = 3
    /\ non200 = 3

----------------------------------------------------------------------------
(* Properties of the two entry points: side effects and frames *)

\* poll_for_token has just returned a token to complete_github_authorization
PollSucceeded ==
    /\ pc \in {"poll_done", "identity", "save"}
    /\ frame.caller = "complete"
    /\ poll_out.kind = "return"

\* C15: when the poll inside complete_github_authorization returned a token,
\* the call sets the environment token to it, fetches the identity and calls
\* save_token_to_env with it, in this order, and ends only after the three,
\* with the success payload whatever the identity fetch and the save did; no
\* other step writes the environment token.
C15_SuccessSideEffects ==
    [][/\ PollSucceeded =>
            /\ environ' = poll_out.tok
            /\ trace' = SubSeq(SuccessOrder, 1, Len(trace) + 1)
            /\ pc' = "idle" =>
                  /\ trace' = SuccessOrder
                  /\ save_tok' = poll_out.tok
                  /\ result'.kind = "success"
                  /\ ~raised'
       /\ (environ' # environ \/ trace' # <<>>) => PollSucceeded]_vars

\* the device-code response {device_code: "d1", user_code: "ABCD-1234",
\* verification_uri: "https://github.com/device", interval: 5, expires_in: 900}
ScenarioResponse ==
    [kind |-> "http", status |-> 200, json |-> TRUE,
     body |-> [has |-> DeviceFields, device_code |-> "d1", interval |-> 5,
               expires_in |-> JNum(900)]]

\* C16: a start_github_authorization call that returns the instructions has
\* put in the slot, in that one step, the client it created and the
\* device_code, interval, user_code and expires_in of the response, and shows
\* the user code and expires_in // 60 minutes (interval 5 and 15 minutes for the
\* response with interval 5 and expires_in 900); a call that returns an error
\* text leaves the slot as it was. (A call ended by a Ctrl-C returns nothing
\* and is left aside.)
C16_SlotReplacedOnSuccessOnly ==
    [][(call' = "start" /\ result'.msg # Interrupted) =>
         /\ result'.kind \in {"instructions", "error"}
         /\ result'.kind = "instructions" =>
               /\ flow_ret'.val.has = DeviceFields
               /\ access_token'[NewClient] = None
               /\ device_flow_storage' =
                      [set |-> TRUE, device_flow |-> NewClient,
                       device_code |-> flow_ret'.val.device_code,
                       interval |-> flow_ret'.val.interval,
                       user_code |-> UserCode,
                       expires_in |-> flow_ret'.val.expires_in]
               /\ result'.user_code = UserCode
               /\ result'.minutes = flow_ret'.val.expires_in.n \div 60
         /\ result'.kind = "error" =>
               /\ device_flow_storage' = device_flow_storage
         /\ LET o == StartBody(ScenarioResponse, NewClient, "utf-8", "ok")
                s == StoreSlot(device_flow_storage, o)
            IN  /\ StartExcept(o, "utf-8").result.kind = "instructions"
                /\ StartExcept(o, "utf-8").result.user_code = "ABCD-1234"
                /\ StartExcept(o, "utf-8").result.minutes = 15
                /\ s.interval = 5
                /\ s.device_code = "d1"
                /\ s.expires_in = JNum(900)]_vars

----------------------------------------------------------------------------
(* Properties of save_token_to_env: the saved line and repeated saves *)

\* C17: after save_token_to_env returned True for a token, the file it wrote
\* has a line that is exactly GITHUB_PERSONAL_ACCESS_TOKEN=token, whatever the
\* file held before.
C17_SavedLinePresent ==
    (call = "save" /\ save_ret) =>
        \E i \in 1..Len(Split(fs[save_path])) :
            Split(fs[save_path])[i] = KeyLine(save_tok)

\* poll_for_token has just raised inside complete_github_authorization
PollFailed ==
    pc = "poll_done" /\ frame.caller = "complete" /\ poll_out.kind = "raise"

\* C18: a complete_github_authorization call whose poll raises changes neither
\* the slot, nor the environment token, nor any file, at any of its steps, and
\* ends there (with the error text, unless the poll was ended by a Ctrl-C);
\* the complete call that follows it polls on the client, device code and
\* interval the slot still holds.
C18_FailedCompleteChangesNothing ==
    [][/\ (call' = "complete" /\ ~PollSucceeded) =>
            /\ device_flow_storage' = device_flow_storage
            /\ environ' = environ
            /\ fs' = fs
       /\ PollFailed =>
            /\ pc' = "idle"
            /\ poll_out.msg # Interrupted => result'.kind = "error" /\ ~raised'
       /\ (call = "complete" /\ result.kind \in {"error", "exception"}
             /\ call' = "complete"
             /\ frame'.caller = "complete") =>
            /\ device_flow_storage.set
            /\ frame'.client = device_flow_storage.device_flow
            /\ frame'.device_code = device_flow_storage.device_code
            /\ frame'.interval = device_flow_storage.interval]_vars

\* a complete call failed on a timeout after an earlier one had succeeded:
\* the slot and the environment token are still there
C18_Witness ==
    /\ call = "complete"
    /\ pc = "idle"
    /\ result.kind = "error"
    /\ result.msg = <<"Error completing authorization">> \o TimedOut
    /\ device_flow_storage.set
    /\ access_token[device_flow_storage.device_flow] \in Tokens
    /\ environ = access_token[device_flow_storage.device_flow]

\* C19: a save_token_to_env call that succeeds right after a successful call
\* with the same token leaves every file as the first call left it, whether
\* the first call replaced a key line or appended one.
C19_SaveIdempotent ==
    [][(call = "save" /\ save_ret /\ call' = "save" /\ save_io' = IO("ok")
          /\ save_tok' = save_tok) =>
            /\ save_ret'
            /\ save_path' = save_path
            /\ fs' = fs]_vars

\* a save found the file as an earlier save of the same token had left it
\* after appending the key line, and wrote it back unchanged
C19_Witness ==
    /\ call = "save"
    /\ save_ret
    /\ save_tok = "t2"
    /\ save_pre = fs[save_path]
    /\ Len(save_pre) > MaxFileLen + 1
    /\ SubSeq(save_pre, Len(save_pre) - 3, Len(save_pre))
          = <<NewLine>> \o KeyLine("t2") \o <<NewLine>>

====
